---- MODULE Spec2Model ----
(***************************************************************************)
(* FFT WebSocket server (backend-examples/python/fft_server.py and its     *)
(* fft_server_pi_debug.py variant): the connection handlers, the capture   *)
(* loop task and the shutdown path, as asyncio tasks that interleave at    *)
(* their await points.  One action is one run of a task between two        *)
(* awaits.                                                                 *)
(***************************************************************************)
EXTENDS Integers, Sequences, FiniteSets, TLC

\* ---- bounds of the model ----
MaxConns == 2       \* connections the transport accepts over the run
MaxSessions == 2    \* capture sessions (successful device opens)
MaxFrames == 2      \* spectrum frames computed over the run
MaxCalls == 3       \* _compute_fft calls followed by FftSpec
MaxChunk == 6       \* longest chunk given to _compute_fft, in periods
MaxDt == 3          \* longest time between two calls, in clock ticks

\* ---- program constants ----
PERIOD_SIZE == 256
FFT_SIZE == 1024
FFT_BINS == 80
FFT_FPS == 120
MinDb == -85
MaxDb == -25

\* the rolling buffer is followed in units of one period of samples
BufPeriods == FFT_SIZE \div PERIOD_SIZE

\* the clock ticks twice per frame interval; self._fft_interval = 1.0 / FFT_FPS
TicksPerSecond == 2 * FFT_FPS
FftInterval == TicksPerSecond \div FFT_FPS

Conns == 1..MaxConns
Sessions == 1..MaxSessions

VARIABLES
    clients,          \* self.clients: list of joined connections
    pcm,              \* self.pcm: the device handle, 0 for None
    running,          \* self.running
    fft_buffer_pos,   \* self._fft_buffer_pos
    hpc,              \* position of each _handle_connection task
    conn,             \* transport state of each connection
    stalled,          \* connections whose peer has stopped reading
    sent,             \* messages each connection has been sent, in order
    lp,               \* the _capture_loop tasks, one per session
    nextSession,      \* sessions opened so far + 1 (also the handle id)
    devOpen,          \* device handles that are open
    devFailed,        \* device handles whose device has failed
    frameNo,          \* frames computed so far
    phase,            \* start(): "serving", "closing", "stopped"
    bc,               \* record of the broadcast in progress / last finished
    lastExit,         \* how the last capture loop to end left its loop
    readEmpty,        \* a device read was made while self.clients was empty
    fft_buffer,       \* self._fft_buffer, one entry per period of samples
    last_fft_time,    \* self._last_fft_time, in clock ticks
    now,              \* time.time(), in clock ticks
    acc               \* record of the _compute_fft calls made so far

vars == <<clients, pcm, running, fft_buffer_pos, hpc, conn, stalled, sent,
          lp, nextSession, devOpen, devFailed, frameNo, phase, bc, lastExit,
          readEmpty, fft_buffer, last_fft_time, now, acc>>

\* the state of _compute_fft that Spec abstracts (it draws the outcome of
\* the rate limit and tracks only the cursor) and FftSpec follows exactly
fftVars == <<fft_buffer, last_fft_time, now, acc>>

\* everything but the state of _compute_fft
srvVars == <<clients, pcm, running, hpc, conn, stalled, sent, lp, nextSession,
             devOpen, devFailed, frameNo, phase, bc, lastExit, readEmpty>>

Range(s) == {s[i] : i \in 1..Len(s)}

\* the text configuration message, json.dumps({...})
ConfigMsg == [type |-> "config", mode |-> "fft", bins |-> FFT_BINS, fps |-> FFT_FPS]

\* the level of band i in the n-th frame, in dB: 20 * log10(spectrum + 1e-10)
\* of a non-negative band magnitude is -200 or more; the levels of a frame
\* run from below MinDb to above MaxDb
BandDb(n, i) == -200 + ((37 * i + 11 * n) % 211)

\* variant of Quantize: the normalized value is not clipped to 0..1
Quantize_NoClip(db) == ((db - MinDb) * 255) \div (MaxDb - MinDb)

\* normalized = clip((db - min_db) / (max_db - min_db), 0, 1);
\* (normalized * 255).astype(np.uint8) truncates
Quantize(db) ==
    LET range == MaxDb - MinDb
        above == IF db - MinDb < 0 THEN 0
                 ELSE IF db - MinDb > range THEN range ELSE db - MinDb
    IN (above * 255) \div range

\* a binary frame: one byte per band, spectrum = np.zeros(FFT_BINS) filled
\* band by band and quantized; id tells the frames apart
Frame(n) == [type |-> "frame", id |-> n,
             bytes |-> [i \in 1..FFT_BINS |-> Quantize(BandDb(n, i))]]

NoLoop == [pc |-> "none", cur |-> 0, idx |-> 0, disc |-> <<>>, frame |-> 0]
LoopAt(p) == [NoLoop EXCEPT !.pc = p]

\* no _compute_fft call made yet: out is the outcome of the last call, chunk
\* the mono samples it was given, read the periods read from the device so
\* far, ingested those added to the buffer, frames the frames returned,
\* prevEmit the time of the last frame, session and sessionStart the capture session and the value of
\* read when it began
NoCalls == [calls |-> 0, out |-> "none", chunk |-> <<>>, read |-> 0,
            ingested |-> 0, frames |-> 0, prevEmit |-> -1, session |-> 1, sessionStart |-> 0]

NoBroadcast == [active |-> FALSE, frame |-> 0, stable |-> {}, tried |-> {}, failed |-> {}]

LoopAlive(l) == lp[l].pc \in {"created", "sleep", "send"}
AnyLoopAlive == \E l \in Sessions : LoopAlive(l)

Init ==
    /\ clients = <<>>
    /\ pcm = 0
    /\ running = FALSE
    /\ fft_buffer_pos = 0
    /\ hpc = [c \in Conns |-> "idle"]
    /\ conn = [c \in Conns |-> "none"]
    /\ stalled = {}
    /\ sent = [c \in Conns |-> <<>>]
    /\ lp = [l \in Sessions |-> NoLoop]
    /\ nextSession = 1
    /\ devOpen = {}
    /\ devFailed = {}
    /\ frameNo = 0
    /\ phase = "serving"
    /\ bc = NoBroadcast
    /\ lastExit = "none"
    /\ readEmpty = FALSE
    /\ fft_buffer = [i \in 1..BufPeriods |-> 0]
    /\ last_fft_time = 0
    /\ now = FftInterval
    /\ acc = NoCalls

\* ---- list operations of self.clients ----

\* list.remove(x): drops the first occurrence of x (x is in the list)
ListRemove(cl, x) ==
    LET i == CHOOSE k \in 1..Len(cl) : cl[k] = x /\ \A j \in 1..(k-1) : cl[j] # x
    IN SubSeq(cl, 1, i-1) \o SubSeq(cl, i+1, Len(cl))

\* for client in disconnected: self.clients.remove(client)
\* raised is TRUE when a remove() raises ValueError; removals before it stay
RECURSIVE RemoveEach(_, _)
RemoveEach(cl, disc) ==
    IF disc = <<>> THEN [list |-> cl, raised |-> FALSE]
    ELSE IF Head(disc) \notin Range(cl) THEN [list |-> cl, raised |-> TRUE]
    ELSE RemoveEach(ListRemove(cl, Head(disc)), Tail(disc))

\* ---- the device ----

\* variant of CloseDevice: the handle is dropped without close()
CloseDevice_Leaks ==
    /\ pcm' = 0
    /\ devOpen' = devOpen

\* _close_device(): if self.pcm: self.pcm.close(); self.pcm = None
CloseDevice ==
    /\ pcm' = 0
    /\ devOpen' = devOpen \ {pcm}

\* ---- _handle_connection ----

\* variant of Accept: the client is appended to self.clients before the
\* configuration message is sent
Accept_JoinsFirst(c) ==
    /\ phase = "serving"
    /\ hpc[c] = "idle"
    /\ \A d \in Conns : d < c => hpc[d] # "idle"
    /\ hpc' = [hpc EXCEPT ![c] = "config"]
    /\ conn' = [conn EXCEPT ![c] = "open"]
    /\ clients' = Append(clients, c)
    /\ UNCHANGED <<lastExit, readEmpty>>
    /\ UNCHANGED <<pcm, running, fft_buffer_pos, stalled, sent, lp,
                   nextSession, devOpen, devFailed, frameNo, phase, bc>>
    /\ UNCHANGED fftVars

\* the transport accepts a connection and the handler runs up to the
\* await of websocket.send(config)
Accept(c) ==
    /\ phase = "serving"
    /\ hpc[c] = "idle"
    /\ \A d \in Conns : d < c => hpc[d] # "idle"
    /\ hpc' = [hpc EXCEPT ![c] = "config"]
    /\ conn' = [conn EXCEPT ![c] = "open"]
    /\ UNCHANGED <<lastExit, readEmpty>>
    /\ UNCHANGED <<clients, pcm, running, fft_buffer_pos, stalled, sent, lp,
                   nextSession, devOpen, devFailed, frameNo, phase, bc>>
    /\ UNCHANGED fftVars


\* websocket.send(config) raises ConnectionClosed: the handler ends before
\* it reaches self.clients.append
ConfigFails(c) ==
    /\ hpc[c] = "config"
    /\ conn[c] = "closed"
    /\ hpc' = [hpc EXCEPT ![c] = "done"]
    /\ UNCHANGED <<lastExit, readEmpty>>
    /\ UNCHANGED <<clients, pcm, running, fft_buffer_pos, conn, stalled, sent,
                   lp, nextSession, devOpen, devFailed, frameNo, phase, bc>>
    /\ UNCHANGED fftVars

\* websocket.send(config) returns; self.clients.append(client); self.running
\* is already set, so the handler goes on to `async for _ in websocket`
JoinRunning(c) ==
    /\ hpc[c] = "config"
    /\ conn[c] = "open"
    /\ running
    /\ sent' = [sent EXCEPT ![c] = Append(@, ConfigMsg)]
    /\ clients' = Append(clients, c)
    /\ hpc' = [hpc EXCEPT ![c] = "recv"]
    /\ UNCHANGED <<lastExit, readEmpty>>
    /\ UNCHANGED <<pcm, running, fft_buffer_pos, conn, stalled, lp,
                   nextSession, devOpen, devFailed, frameNo, phase, bc>>
    /\ UNCHANGED fftVars

\* variant of JoinStart: capture is started without the test of self.running
JoinStart_Unguarded(c) ==
    /\ hpc[c] = "config"
    /\ conn[c] = "open"
    /\ nextSession <= MaxSessions
    /\ sent' = [sent EXCEPT ![c] = Append(@, ConfigMsg)]
    /\ clients' = Append(clients, c)
    /\ running' = TRUE
    /\ pcm' = nextSession
    /\ devOpen' = devOpen \cup {nextSession}
    /\ lp' = [lp EXCEPT ![nextSession] = LoopAt("created")]
    /\ nextSession' = nextSession + 1
    /\ hpc' = [hpc EXCEPT ![c] = "recv"]
    /\ UNCHANGED <<lastExit, readEmpty>>
    /\ UNCHANGED <<fft_buffer_pos, conn, stalled, devFailed, frameNo, phase, bc>>
    /\ UNCHANGED fftVars

\* websocket.send(config) returns; self.clients.append(client); not
\* self.running: self.running = True; _open_device() returns a handle;
\* asyncio.create_task(self._capture_loop())
JoinStart(c) ==
    /\ hpc[c] = "config"
    /\ conn[c] = "open"
    /\ ~running
    /\ nextSession <= MaxSessions
    /\ sent' = [sent EXCEPT ![c] = Append(@, ConfigMsg)]
    /\ clients' = Append(clients, c)
    /\ running' = TRUE
    /\ pcm' = nextSession
    /\ devOpen' = devOpen \cup {nextSession}
    /\ lp' = [lp EXCEPT ![nextSession] = LoopAt("created")]
    /\ nextSession' = nextSession + 1
    /\ hpc' = [hpc EXCEPT ![c] = "recv"]
    /\ UNCHANGED <<lastExit, readEmpty>>
    /\ UNCHANGED <<fft_buffer_pos, conn, stalled, devFailed, frameNo, phase, bc>>
    /\ UNCHANGED fftVars

\* as JoinStart, but alsaaudio.PCM(...) raises in _open_device(): the
\* exception leaves the handler before create_task and before the
\* try/finally that removes the client; the transport closes the connection
JoinOpenFails(c) ==
    /\ hpc[c] = "config"
    /\ conn[c] = "open"
    /\ ~running
    /\ nextSession <= MaxSessions
    /\ sent' = [sent EXCEPT ![c] = Append(@, ConfigMsg)]
    /\ clients' = Append(clients, c)
    /\ running' = TRUE
    /\ hpc' = [hpc EXCEPT ![c] = "aborted"]
    /\ conn' = [conn EXCEPT ![c] = "closed"]
    /\ stalled' = stalled \ {c}
    /\ UNCHANGED <<lastExit, readEmpty>>
    /\ UNCHANGED <<pcm, fft_buffer_pos, lp, nextSession, devOpen, devFailed,
                   frameNo, phase, bc>>
    /\ UNCHANGED fftVars

\* `async for _ in websocket` ends (connection closed); finally:
\* if client in self.clients: self.clients.remove(client)
HandlerExit(c) ==
    /\ hpc[c] = "recv"
    /\ conn[c] = "closed"
    /\ clients' = IF c \in Range(clients) THEN ListRemove(clients, c) ELSE clients
    /\ hpc' = [hpc EXCEPT ![c] = "done"]
    /\ bc' = IF bc.active THEN [bc EXCEPT !.stable = @ \ {c}] ELSE bc
    /\ UNCHANGED <<lastExit, readEmpty>>
    /\ UNCHANGED <<pcm, running, fft_buffer_pos, conn, stalled, sent, lp,
                   nextSession, devOpen, devFailed, frameNo, phase>>
    /\ UNCHANGED fftVars

\* ---- the environment ----

\* the peer disconnects or the network drops the connection
Drop(c) ==
    /\ phase # "stopped"
    /\ conn[c] = "open"
    /\ conn' = [conn EXCEPT ![c] = "closed"]
    /\ stalled' = stalled \ {c}
    /\ UNCHANGED <<lastExit, readEmpty>>
    /\ UNCHANGED <<clients, pcm, running, fft_buffer_pos, hpc, sent, lp,
                   nextSession, devOpen, devFailed, frameNo, phase, bc>>
    /\ UNCHANGED fftVars

\* the peer of a joined connection stops reading: a send to it does not
\* return while the connection stays open
Stall(c) ==
    /\ phase # "stopped"
    /\ conn[c] = "open"
    /\ hpc[c] = "recv"
    /\ c \notin stalled
    /\ stalled' = stalled \cup {c}
    /\ UNCHANGED <<lastExit, readEmpty>>
    /\ UNCHANGED <<clients, pcm, running, fft_buffer_pos, hpc, conn, sent, lp,
                   nextSession, devOpen, devFailed, frameNo, phase, bc>>
    /\ UNCHANGED fftVars

\* the open capture device fails: the next read of it raises
DeviceFail ==
    /\ phase # "stopped"
    /\ pcm \in devOpen \ devFailed
    /\ devFailed' = devFailed \cup {pcm}
    /\ UNCHANGED <<lastExit, readEmpty>>
    /\ UNCHANGED <<clients, pcm, running, fft_buffer_pos, hpc, conn, stalled,
                   sent, lp, nextSession, devOpen, frameNo, phase, bc>>
    /\ UNCHANGED fftVars


\* ---- _compute_fft ----

\* variant of BufferPosAfter: the cursor advances by the whole chunk
BufferPosAfter_NoClamp(pos, n) == pos + n

\* the rolling-buffer cursor after a chunk of n mono samples is added:
\* pos += min(n, FFT_SIZE - pos); an overflowing chunk sets pos = FFT_SIZE
BufferPosAfter(pos, n) ==
    LET samples_to_add == IF n < FFT_SIZE - pos THEN n ELSE FFT_SIZE - pos
    IN IF samples_to_add < n THEN FFT_SIZE ELSE pos + samples_to_add

\* variant of RateLimited: no rate limit
RateLimited_Never(t, last) == FALSE

\* the rate limit: current_time - self._last_fft_time < self._fft_interval
\* returns None
RateLimited(t, last) == t - last < FftInterval

\* the rolling buffer after the mono samples of a chunk are added.  buf has
\* one entry per period, pos is in samples, mono is the chunk in periods.
\*   buf[pos:pos + samples_to_add] = mono[:samples_to_add]
\*   if samples_to_add < len(mono):
\*       remaining = mono[samples_to_add:]; shift_amount = len(remaining)
\*       buf[:-shift_amount] = buf[shift_amount:]
\*       buf[-shift_amount:] = remaining
\* When shift_amount exceeds the buffer length both sides of the first
\* assignment are empty and buf[-shift_amount:] is the whole buffer, so the
\* second assignment raises ValueError (shapes differ); the cursor and the
\* first samples_to_add entries are already written by then.
Ingest(buf, pos, mono) ==
    LET k == Len(buf)
        p == pos \div PERIOD_SIZE
        space_available == k - p
        samples_to_add == IF Len(mono) < space_available THEN Len(mono)
                          ELSE space_available
        buf1 == [i \in 1..k |-> IF p < i /\ i <= p + samples_to_add
                                THEN mono[i - p] ELSE buf[i]]
        remaining == SubSeq(mono, samples_to_add + 1, Len(mono))
        shift_amount == Len(remaining)
    IN  IF ~(samples_to_add < Len(mono))
        THEN [buf |-> buf1, raised |-> FALSE,
              pos |-> BufferPosAfter(pos, Len(mono) * PERIOD_SIZE)]
        ELSE IF shift_amount > k
        THEN [buf |-> buf1, raised |-> TRUE,
              pos |-> pos + samples_to_add * PERIOD_SIZE]
        ELSE [buf |-> SubSeq(buf1, shift_amount + 1, k) \o remaining,
              raised |-> FALSE,
              pos |-> BufferPosAfter(pos, Len(mono) * PERIOD_SIZE)]

\* _compute_fft(data) at time t: the outcome and the state it leaves
\*   "rate"   None from the rate limit, nothing touched
\*   "raised" the buffer update raised
\*   "fill"   None because the buffer is not full yet
\*   "frame"  a frame is returned and self._last_fft_time = current_time
FftCall(buf, pos, last, mono, t) ==
    IF RateLimited(t, last)
    THEN [out |-> "rate", buf |-> buf, pos |-> pos, last |-> last]
    ELSE LET r == Ingest(buf, pos, mono) IN
         IF r.raised
         THEN [out |-> "raised", buf |-> r.buf, pos |-> r.pos, last |-> last]
         ELSE IF r.pos < FFT_SIZE
         THEN [out |-> "fill", buf |-> r.buf, pos |-> r.pos, last |-> last]
         ELSE [out |-> "frame", buf |-> r.buf, pos |-> r.pos, last |-> t]

\* _compute_fft(data) for a chunk of n frames; elapsed says whether
\* current_time - self._last_fft_time >= self._fft_interval.
\* A rate-limited call returns None before the buffer is touched; an
\* admitted call returns None until the buffer is full.
ComputeFft(pos, n, elapsed) ==
    IF ~elapsed THEN [pos |-> pos, frame |-> FALSE]
    ELSE [pos |-> BufferPosAfter(pos, n),
          frame |-> ~(BufferPosAfter(pos, n) < FFT_SIZE)]

\* ---- _capture_loop ----

\* variant of LoopCondition: while self.running
LoopCondition_IgnoresClients == running

\* while self.running and self.clients
LoopCondition == running /\ clients # <<>>

\* self.pcm.read() raises (no handle, or the device has failed)
ReadRaises == pcm = 0 \/ pcm \in devFailed

\* the task is at create_task or at an asyncio.sleep: its next step starts
\* at the while condition
AtLoopTop(l) == lp[l].pc \in {"created", "sleep"}

\* variant of LoopFinally: the running flag is not cleared
LoopFinally_KeepsRunning(l, reason) ==
    /\ CloseDevice
    /\ running' = running
    /\ lp' = [lp EXCEPT ![l] = LoopAt("done")]
    /\ lastExit' = reason

\* except Exception / finally: self._close_device(); self.running = False
LoopFinally(l, reason) ==
    /\ CloseDevice
    /\ running' = FALSE
    /\ lp' = [lp EXCEPT ![l] = LoopAt("done")]
    /\ lastExit' = reason

\* the while condition is false: the loop ends through finally
LoopExit(l) ==
    /\ AtLoopTop(l)
    /\ ~LoopCondition
    /\ LoopFinally(l, "empty")
    /\ UNCHANGED <<clients, fft_buffer_pos, hpc, conn, stalled, sent,
                   nextSession, devFailed, frameNo, phase, bc, readEmpty>>
    /\ UNCHANGED fftVars

\* variant of ReadFatal: the exception of read() is absorbed and the read
\* is retried after a sleep
ReadFatal_Retries(l) ==
    /\ AtLoopTop(l)
    /\ LoopCondition
    /\ ReadRaises
    /\ readEmpty' = (readEmpty \/ clients = <<>>)
    /\ lp' = [lp EXCEPT ![l] = LoopAt("sleep")]
    /\ UNCHANGED <<clients, pcm, running, fft_buffer_pos, hpc, conn, stalled,
                   sent, nextSession, devOpen, devFailed, frameNo, phase, bc,
                   lastExit>>
    /\ UNCHANGED fftVars

\* self.pcm.read() raises: except Exception, then finally
ReadFatal(l) ==
    /\ AtLoopTop(l)
    /\ LoopCondition
    /\ ReadRaises
    /\ readEmpty' = (readEmpty \/ clients = <<>>)
    /\ LoopFinally(l, "read")
    /\ UNCHANGED <<clients, fft_buffer_pos, hpc, conn, stalled, sent,
                   nextSession, devFailed, frameNo, phase, bc>>
    /\ UNCHANGED fftVars

\* self.pcm.read() returns length < 0 or no data (the debug variant also
\* lands here on ALSAAudioError): await asyncio.sleep(0.001); continue
ReadNotReady(l) ==
    /\ AtLoopTop(l)
    /\ LoopCondition
    /\ ~ReadRaises
    /\ readEmpty' = (readEmpty \/ clients = <<>>)
    /\ lp' = [lp EXCEPT ![l] = LoopAt("sleep")]
    /\ UNCHANGED <<clients, pcm, running, fft_buffer_pos, hpc, conn, stalled,
                   sent, nextSession, devOpen, devFailed, frameNo, phase, bc,
                   lastExit>>
    /\ UNCHANGED fftVars

\* a chunk is read and _compute_fft returns None: await asyncio.sleep(0)
ReadSkip(l) ==
    /\ AtLoopTop(l)
    /\ LoopCondition
    /\ ~ReadRaises
    /\ \E elapsed \in BOOLEAN :
         LET r == ComputeFft(fft_buffer_pos, PERIOD_SIZE, elapsed) IN
         /\ ~r.frame
         /\ fft_buffer_pos' = r.pos
    /\ readEmpty' = (readEmpty \/ clients = <<>>)
    /\ lp' = [lp EXCEPT ![l] = LoopAt("sleep")]
    /\ UNCHANGED <<clients, pcm, running, hpc, conn, stalled, sent,
                   nextSession, devOpen, devFailed, frameNo, phase, bc,
                   lastExit>>
    /\ UNCHANGED fftVars

\* one turn of `for client in self.clients` and what follows it.  The list
\* iterator has handed out idx items; it yields self.clients[idx] of the
\* list as it is now, and the task awaits that send.  When the iterator is
\* exhausted the disconnected clients are removed and the loop awaits
\* asyncio.sleep(0), or a remove() raises ValueError, which `except
\* Exception` catches, and the loop ends through finally.
Iterate(l, idx, frame, disc, bc2) ==
    IF idx < Len(clients)
    THEN /\ lp' = [lp EXCEPT ![l] = [pc |-> "send", cur |-> clients[idx + 1],
                                     idx |-> idx + 1, disc |-> disc,
                                     frame |-> frame]]
         /\ bc' = bc2
         /\ UNCHANGED <<clients, pcm, running, devOpen, lastExit>>
    ELSE LET r == RemoveEach(clients, disc) IN
         /\ clients' = r.list
         /\ bc' = [bc2 EXCEPT !.active = FALSE]
         /\ IF r.raised
            THEN LoopFinally(l, "remove")
            ELSE /\ lp' = [lp EXCEPT ![l] = LoopAt("sleep")]
                 /\ UNCHANGED <<pcm, running, devOpen, lastExit>>

\* a chunk is read and _compute_fft returns a frame: disconnected = [] and
\* the broadcast starts
ReadFrame(l) ==
    /\ AtLoopTop(l)
    /\ LoopCondition
    /\ ~ReadRaises
    /\ frameNo < MaxFrames
    /\ \E elapsed \in BOOLEAN :
         LET r == ComputeFft(fft_buffer_pos, PERIOD_SIZE, elapsed) IN
         /\ r.frame
         /\ fft_buffer_pos' = r.pos
    /\ readEmpty' = (readEmpty \/ clients = <<>>)
    /\ frameNo' = frameNo + 1
    /\ Iterate(l, 0, frameNo + 1, <<>>,
               [active |-> TRUE, frame |-> frameNo + 1,
                stable |-> Range(clients), tried |-> {}, failed |-> {}])
    /\ UNCHANGED <<hpc, conn, stalled, sent, nextSession, devFailed, phase>>
    /\ UNCHANGED fftVars

\* await client.websocket.send(fft_data) returns
SendOk(l) ==
    /\ lp[l].pc = "send"
    /\ conn[lp[l].cur] = "open"
    /\ lp[l].cur \notin stalled
    /\ sent' = [sent EXCEPT ![lp[l].cur] = Append(@, Frame(lp[l].frame))]
    /\ Iterate(l, lp[l].idx, lp[l].frame, lp[l].disc,
               [bc EXCEPT !.tried = @ \cup {lp[l].cur}])
    /\ UNCHANGED <<fft_buffer_pos, hpc, conn, stalled, nextSession, devFailed,
                   frameNo, phase, readEmpty>>
    /\ UNCHANGED fftVars

\* await client.websocket.send(fft_data) raises: disconnected.append(client)
SendFails(l) ==
    /\ lp[l].pc = "send"
    /\ conn[lp[l].cur] # "open"
    /\ Iterate(l, lp[l].idx, lp[l].frame, Append(lp[l].disc, lp[l].cur),
               [bc EXCEPT !.tried = @ \cup {lp[l].cur},
                          !.failed = @ \cup {lp[l].cur}])
    /\ UNCHANGED <<fft_buffer_pos, hpc, conn, stalled, sent, nextSession,
                   devFailed, frameNo, phase, readEmpty>>
    /\ UNCHANGED fftVars

\* ---- start(): shutdown ----

\* SIGTERM/SIGINT: stop.set(); leaving `async with serve(...)` stops
\* accepting and closes every open connection
Signal ==
    /\ phase = "serving"
    /\ phase' = "closing"
    /\ conn' = [c \in Conns |-> IF conn[c] = "open" THEN "closed" ELSE conn[c]]
    /\ stalled' = {}
    /\ UNCHANGED <<lastExit, readEmpty>>
    /\ UNCHANGED <<clients, pcm, running, fft_buffer_pos, hpc, sent, lp,
                   nextSession, devOpen, devFailed, frameNo, bc>>
    /\ UNCHANGED fftVars

\* every handler has ended, start() returns and asyncio.run cancels the
\* tasks that are left: CancelledError is raised at the await where the
\* capture loop is suspended, passes `except Exception` and runs finally.
\* (A task made by create_task has had its first step by then: the event
\* loop runs ready callbacks in FIFO order.)
Finish ==
    /\ phase = "closing"
    /\ \A c \in Conns : hpc[c] \in {"idle", "done", "aborted"}
    /\ \A l \in Sessions : lp[l].pc # "created"
    /\ phase' = "stopped"
    /\ IF AnyLoopAlive
       THEN /\ CloseDevice
            /\ running' = FALSE
            /\ lp' = [l \in Sessions |-> IF LoopAlive(l) THEN LoopAt("done") ELSE lp[l]]
            /\ lastExit' = "cancelled"
       ELSE UNCHANGED <<pcm, devOpen, running, lp, lastExit>>
    /\ UNCHANGED readEmpty
    /\ UNCHANGED <<clients, fft_buffer_pos, hpc, conn, stalled, sent,
                   nextSession, devFailed, frameNo, bc>>
    /\ UNCHANGED fftVars

HandlerNext ==
    \E c \in Conns :
        \/ Accept(c)
        \/ ConfigFails(c)
        \/ JoinRunning(c)
        \/ JoinStart(c)
        \/ JoinOpenFails(c)
        \/ HandlerExit(c)

LoopNext ==
    \E l \in Sessions :
        \/ LoopExit(l)
        \/ ReadFatal(l)
        \/ ReadNotReady(l)
        \/ ReadSkip(l)
        \/ ReadFrame(l)
        \/ SendOk(l)
        \/ SendFails(l)

EnvNext ==
    \/ \E c \in Conns : Drop(c) \/ Stall(c)
    \/ DeviceFail
    \/ Signal
    \/ Finish

Next == HandlerNext \/ LoopNext \/ EnvNext

Spec == Init /\ [][Next]_vars

\* ---- _compute_fft followed call by call ----

\* the capture loop reads a chunk of n periods dt ticks after the last one
\* and calls _compute_fft on it; the samples are numbered in read order
Call(n, dt) ==
    /\ acc.calls < MaxCalls
    /\ acc.out # "raised"
    /\ LET mono == [i \in 1..n |-> acc.read + i]
           r == FftCall(fft_buffer, fft_buffer_pos, last_fft_time, mono, now + dt)
       IN /\ now' = now + dt
          /\ fft_buffer' = r.buf
          /\ fft_buffer_pos' = r.pos
          /\ last_fft_time' = r.last
          /\ acc' = [acc EXCEPT !.calls = @ + 1,
                                !.out = r.out,
                                !.chunk = mono,
                                !.read = @ + n,
                                !.ingested = IF r.out = "rate" THEN @ ELSE @ + n,
                                !.frames = IF r.out = "frame" THEN @ + 1 ELSE @,
                                !.prevEmit = IF r.out = "frame" THEN now + dt ELSE @]
    /\ UNCHANGED srvVars

\* the capture loop ends (finally: _close_device(), running = False) and a
\* later client starts the next one (running = True, _open_device(),
\* create_task): neither touches the buffer, the cursor or the timestamp
Restart ==
    /\ acc.session < MaxSessions
    /\ acc.calls > 0
    /\ acc' = [acc EXCEPT !.session = @ + 1, !.sessionStart = acc.read,
                          !.out = "none", !.chunk = <<>>]
    /\ UNCHANGED <<fft_buffer, fft_buffer_pos, last_fft_time, now>>
    /\ UNCHANGED srvVars

FftNext ==
    \/ \E n \in 0..MaxChunk : \E dt \in 0..MaxDt : Call(n, dt)
    \/ Restart

FftSpec == Init /\ [][FftNext]_vars

\* the steps the event loop runs by itself once they are ready
HandlerStep(c) ==
    \/ ConfigFails(c)
    \/ JoinRunning(c)
    \/ JoinStart(c)
    \/ JoinOpenFails(c)
    \/ HandlerExit(c)

LoopStep(l) ==
    \/ LoopExit(l)
    \/ ReadFatal(l)
    \/ ReadNotReady(l)
    \/ ReadSkip(l)
    \/ ReadFrame(l)
    \/ SendOk(l)
    \/ SendFails(l)

\* the asyncio event loop runs every task that is ready; accepts, drops,
\* stalls, device failures and signals are up to the environment
LiveSpec ==
    /\ Spec
    /\ \A c \in Conns : WF_vars(HandlerStep(c))
    /\ \A l \in Sessions : WF_vars(LoopStep(l))

\* ---------------------------------------------------------------------
\* Properties
\* ---------------------------------------------------------------------

\* a connection handler that has passed the configuration send
Joined(c) == hpc[c] \in {"recv", "aborted"} \/ c \in Range(clients)

\* C1: every connection that joins the broadcast set has been sent the text
\* configuration message exactly once, as its first message, before it is
\* in self.clients; everything sent after it is a binary frame, so no frame
\* precedes the configuration message.
C1_ConfigBeforeFrames ==
    \A c \in Conns :
        /\ Joined(c) => sent[c] # <<>>
        /\ sent[c] # <<>> => sent[c][1] = ConfigMsg
        /\ \A i \in 2..Len(sent[c]) : sent[c][i].type = "frame"

\* C1 witness: a client has its configuration message and a frame after it
C1_Witness ==
    \E c \in Conns : Len(sent[c]) >= 2 /\ sent[c][2].type = "frame"

\* C2: when a broadcast has finished, every client that was in self.clients
\* from its start to its end has had the frame sent to it (the send was
\* made, and unless it failed the client has the frame's bytes).
C2_FrameReachesEveryMember ==
    (~bc.active /\ bc.frame > 0) =>
        \A c \in bc.stable :
            /\ c \in bc.tried
            /\ c \notin bc.failed => Frame(bc.frame) \in Range(sent[c])

\* C3: in the step that ends a broadcast, if a send failed the frame has
\* still been tried on every client that stayed in the set, and the client
\* set after the step is the set before it minus exactly the clients whose
\* send failed.
C3_OnlyFailedClientsRemoved ==
    [][(bc.active /\ ~bc'.active) =>
          /\ bc'.failed # {} => bc'.stable \subseteq bc'.tried
          /\ Range(clients') = Range(clients) \ bc'.failed]_vars

\* C4: a capture loop only ends when the client set is empty, the device
\* has failed or the process shuts down; a failed send does not end it.
C4_SendFailureKeepsLoop ==
    [][\A l \in Sessions :
          (LoopAlive(l) /\ ~LoopAlive(l)') =>
              \/ clients' = <<>>
              \/ lastExit' = "read"
              \/ phase' = "stopped"]_vars

\* C5: when a client joins an empty client set, then after that step the
\* device is open and a capture loop is running (unless opening the device
\* raised in that very step).
C5_JoinEmptyStartsCapture ==
    [][\A c \in Conns :
          (hpc[c] = "config" /\ clients = <<>> /\ clients' = <<c>>) =>
              \/ hpc'[c] = "aborted"
              \/ running' /\ pcm' \in devOpen' /\ AnyLoopAlive']_vars

\* C5 witness: after a first session has ended, a client that is alone in
\* the set has started the second session
C5_Witness ==
    /\ nextSession = 3
    /\ lp[1].pc = "done"
    /\ lp[2].pc = "created"
    /\ Len(clients) = 1

\* the capture session has ended the way the code ends it
SessionEnded == ~AnyLoopAlive /\ pcm = 0 /\ devOpen = {} /\ ~running

\* C6: the device is never read while the client set is empty, and a
\* capture loop that finds the set empty ends with the device closed and
\* the running flag cleared, unless a client joins again first.
C6_EmptySetStopsCapture ==
    /\ []~readEmpty
    /\ (clients = <<>> /\ AnyLoopAlive) ~> (clients # <<>> \/ SessionEnded)

\* C6 witness: the loop has ended because the set became empty, after it
\* had broadcast to a client
C6_Witness ==
    /\ lastExit = "empty"
    /\ SessionEnded
    /\ clients = <<>>
    /\ frameNo > 0

\* the loop is awaiting a send to client c
SendingTo(l, c) == lp[l].pc = "send" /\ lp[l].cur = c

\* another client, connected and reading, is in the set
OtherMember(c) ==
    \E d \in Range(clients) : d # c /\ conn[d] = "open" /\ d \notin stalled

\* C7: a send to a client that has stopped reading does not hold the
\* capture loop for ever: while another client is in the set, the loop
\* gets past that send (and so reads the device and broadcasts again).
C7_StalledClientDoesNotStall ==
    \A l \in Sessions : \A c \in Conns :
        (SendingTo(l, c) /\ c \in stalled /\ OtherMember(c))
            ~> (~SendingTo(l, c) \/ ~OtherMember(c))

\* C8: a client that joins while no capture loop exists makes the handler
\* open the device and start a loop (or the open raises again); a failed
\* open does not leave the running flag set.
C8_RetryAfterOpenFailure ==
    [][\A c \in Conns :
          (hpc[c] = "config" /\ hpc'[c] \in {"recv", "aborted"} /\ ~AnyLoopAlive) =>
              \/ hpc'[c] = "aborted"
              \/ AnyLoopAlive' /\ pcm' \in devOpen']_vars

C10_DeviceReleased ==
    /\ ~AnyLoopAlive => devOpen = {} /\ pcm = 0
    /\ phase = "stopped" => devOpen = {} /\ pcm = 0

\* C10 witness: a device was opened and the shutdown has cancelled the
\* capture loop that held it
C10_Witness ==
    /\ phase = "stopped"
    /\ lastExit = "cancelled"
    /\ nextSession > 1
    /\ devOpen = {}


\* a step that is one _compute_fft call
CallStep == acc'.calls = acc.calls + 1

\* C11: a frame is returned only if at least one frame interval has passed
\* since the frame before it, whatever the chunk arrival times, and
\* self._last_fft_time changes only in a call that returns a frame.
C11_FrameRateBounded ==
    [][/\ (CallStep /\ acc'.out = "frame") =>
              (acc.prevEmit = -1 \/ now' - acc.prevEmit >= FftInterval)
       /\ last_fft_time' # last_fft_time =>
              (CallStep /\ acc'.out = "frame" /\ last_fft_time' = now')]_vars

\* C11 witness: two frames have been returned and one call between or
\* before them returned none
C11_Witness ==
    /\ acc.frames = 2
    /\ acc.calls = 3
    /\ acc.out = "frame"


\* the last n entries of s
LastN(s, n) == SubSeq(s, Len(s) - n + 1, Len(s))

\* the periods read from the device so far are numbered 1..acc.read
MostRecentRead(a) == [i \in 1..BufPeriods |-> a.read - BufPeriods + i]

\* C12: every chunk read from the device is added to the rolling buffer,
\* also when the rate limit rejects it, so that the buffer a frame is
\* computed from holds the most recent consecutive samples read.
C12_RejectedChunkStillIngested ==
    [][CallStep =>
          /\ acc'.ingested = acc.ingested + Len(acc'.chunk)
          /\ acc'.out = "frame" => fft_buffer' = MostRecentRead(acc')]_vars

\* the call of this step reaches the buffer update with a chunk longer than
\* the space left in the buffer
Overflows ==
    /\ CallStep
    /\ acc'.out # "rate"
    /\ fft_buffer_pos + Len(acc'.chunk) * PERIOD_SIZE > FFT_SIZE

\* C13: a chunk longer than the remaining space is ingested without error
\* from every cursor position and for every length, and leaves the buffer
\* holding the most recent BufPeriods periods seen, in order, with the
\* cursor at FFT_SIZE.
C13_OverflowKeepsMostRecent ==
    [][Overflows =>
          /\ acc'.out # "raised"
          /\ fft_buffer_pos' = FFT_SIZE
          /\ fft_buffer' =
                 LastN(SubSeq(fft_buffer, 1, fft_buffer_pos \div PERIOD_SIZE)
                           \o acc'.chunk, BufPeriods)]_vars

\* the smaller of two numbers
Min(a, b) == IF a < b THEN a ELSE b

\* C14: the cursor stays within 0..FFT_SIZE, never decreases and equals
\* min(FFT_SIZE, samples ingested so far); a call that reaches the buffer
\* update goes on to a frame exactly when the cursor is at FFT_SIZE.
C14_CursorCountsIngested ==
    [][CallStep =>
          /\ fft_buffer_pos' \in 0..FFT_SIZE
          /\ fft_buffer_pos' >= fft_buffer_pos
          /\ fft_buffer_pos' = Min(FFT_SIZE, acc'.ingested * PERIOD_SIZE)
          /\ acc'.out = "fill" => fft_buffer_pos' < FFT_SIZE
          /\ acc'.out = "frame" => fft_buffer_pos' = FFT_SIZE
          /\ (acc'.out \in {"fill", "frame"} /\ fft_buffer_pos' = FFT_SIZE)
                 => acc'.out = "frame"]_vars

\* C14 witness: the third call brings the cumulative count to exactly
\* FFT_SIZE with a chunk shorter than the buffer and is the first one ready
C14_Witness ==
    /\ acc.calls = 3
    /\ acc.out = "frame"
    /\ acc.frames = 1
    /\ acc.ingested = BufPeriods
    /\ Len(acc.chunk) \in 1..(BufPeriods - 1)
    /\ fft_buffer_pos = FFT_SIZE

\* C16: a frame is computed only from samples read in the capture session
\* that returns it: the buffer does not carry samples over from the
\* session before.
C16_BufferNotCarriedOver ==
    [][(CallStep /\ acc'.out = "frame") =>
          \A i \in 1..BufPeriods : fft_buffer'[i] > acc.sessionStart]_vars


\* C15: every message a client is sent after its configuration message is
\* a binary frame of exactly FFT_BINS bytes, each in 0..255, one per band.
C15_FramesAreBandBytes ==
    \A c \in Conns : \A k \in 2..Len(sent[c]) :
        /\ sent[c][k].type = "frame"
        /\ DOMAIN sent[c][k].bytes = 1..FFT_BINS
        /\ \A i \in 1..FFT_BINS : sent[c][k].bytes[i] \in 0..255

\* C15 witness: a client has been sent a frame with bands at the floor, at
\* the ceiling and in between
C15_Witness ==
    \E c \in Conns :
        /\ Len(sent[c]) >= 2
        /\ \E i \in 1..FFT_BINS : sent[c][2].bytes[i] = 0
        /\ \E i \in 1..FFT_BINS : sent[c][2].bytes[i] = 255
        /\ \E i \in 1..FFT_BINS : sent[c][2].bytes[i] \in 1..254


\* c is sent a frame in this step
GetsFrame(c) ==
    /\ Len(sent'[c]) = Len(sent[c]) + 1
    /\ sent'[c][Len(sent'[c])].type = "frame"

\* c was in self.clients when the frame being broadcast was computed: stable
\* is the client list at that moment less the clients whose handler has
\* ended since, and an ended handler's connection is closed for good
MemberWhenComputed(c) == bc.active /\ c \in bc.stable

\* C17: a client is sent only frames computed after it joined the client
\* list: whoever is sent a frame was in the list when that frame was
\* computed, also when it joined during the broadcast of that frame.
C17_OnlyFramesComputedAfterJoin ==
    [][\A c \in Conns : GetsFrame(c) => MemberWhenComputed(c)]_vars


\* C18: self.clients is not changed while a broadcast iterates over it: from
\* the first send of a broadcast until its iteration has ended no task adds
\* or removes a client.
C18_ClientsFixedDuringBroadcast ==
    [][(bc.active /\ bc'.active) => clients' = clients]_vars


\* the handler of connection c has ended: its connection closed and it ran
\* to its end, or an exception left it
HandlerEnded(c) == hpc[c] \in {"done", "aborted"}

\* C19: a client whose connection handler has ended, by disconnect or by an
\* error that aborted the handler, is not in self.clients.
C19_EndedClientNotMember ==
    \A c \in Conns : HandlerEnded(c) => c \notin Range(clients)


\* the capture loops that have been created and have not ended
ActiveLoops == {l \in Sessions : LoopAlive(l)}

\* C20: at most one capture loop is active, at most one device handle is
\* open, and a handle is open only while self.running is set.
C20_OneLoopOneDevice ==
    /\ Cardinality(ActiveLoops) <= 1
    /\ Cardinality(devOpen) <= 1
    /\ devOpen # {} => running

\* C20 witness: after the first session's loop has ended, a second session
\* is capturing with its own loop and its own handle
C20_Witness ==
    /\ running
    /\ lp[1].pc = "done"
    /\ ActiveLoops = {2}
    /\ devOpen = {2}
    /\ pcm = 2

====
